---- MODULE Spec2Model ----
(***************************************************************************)
(* Model of the tool-augmented completion protocol (runChatWithTools and   *)
(* the POST /api/chat handler) and of the MemoryStore it dispatches to.    *)
(* Text is modelled as a sequence of one-character strings.                *)
(***************************************************************************)
EXTENDS Integers, Sequences, FiniteSets, TLC

VARIABLES
  useJsonl,     \* MemoryStore.useJsonl
  db,           \* rows of table memories, in insertion (rowid) order
  file,         \* lines of data/memory.jsonl, in file order
  now,          \* wall clock read by new Date(): [day, ms]
  nextId,       \* source of fresh ids (crypto.randomUUID)
  lastOp,       \* the store operation called last, with its arguments
  ret,          \* what that operation returned
  pc,           \* position of the exchange
  messages,     \* req.body.messages as read by the handler
  firstReq,     \* request of the first chat.completions.create
  toolCalls,    \* choice.message.tool_calls
  content,      \* choice.message.content
  idx,          \* position of the for-loop over toolCalls
  toolResults,  \* toolResults
  followupReq,  \* request of the follow-up chat.completions.create
  chunks,       \* deltas of the stream chunks consumed so far
  finalText,    \* finalText / text
  emitted,      \* arguments passed to onDelta, in order
  returned,     \* return value of runChatWithTools
  thrown,       \* exception that left runChatWithTools
  res,          \* the HTTP response
  modelCalls,   \* chat.completions.create calls issued
  storeOps,     \* MemoryStore operations invoked by the exchange
  events        \* log of the exchange's events

storeVars == <<useJsonl, db, file, now, nextId, lastOp, ret>>
chatVars  == <<pc, messages, firstReq, toolCalls, content, idx, toolResults, followupReq,
               chunks, finalText, emitted, returned, thrown, res, modelCalls,
               storeOps, events>>
vars == <<useJsonl, db, file, now, nextId, lastOp, ret,
          pc, messages, firstReq, toolCalls, content, idx, toolResults, followupReq,
          chunks, finalText, emitted, returned, thrown, res, modelCalls,
          storeOps, events>>

----------------------------------------------------------------------------
(* Bounds *)
MaxSaves  == 1    \* items saved on top of the initial store (store runs)
MaxDay    == 1
MaxMs     == 1
MaxCalls  == 2    \* tool calls in one model response
MaxChunks == 2    \* chunks of one streamed reply

(* Program constants *)
DefaultSearchLimit == 50
DefaultListLimit   == 200
ToolListLimit      == 50

\* An optional value (undefined / null, or a value) is a sequence of length 0 or 1
None == <<>>
Some(v) == <<v>>
OrElse(opt, default) == IF opt = None THEN default ELSE opt[1]

----------------------------------------------------------------------------
(* Text helpers *)
Min(a, b) == IF a < b THEN a ELSE b
Max(a, b) == IF a > b THEN a ELSE b

Front(s) == SubSeq(s, 1, Len(s) - 1)
Last(s)  == s[Len(s)]

ToLowerChar(c) == CASE c = "K" -> "k" [] c = "V" -> "v" [] OTHER -> c
ToLower(s) == [i \in 1..Len(s) |-> ToLowerChar(s[i])]

\* String.prototype.includes
Includes(s, q) ==
  \E i \in 0..(Len(s) - Len(q)) : SubSeq(s, i + 1, i + Len(q)) = q

\* SQLite LIKE: % any run, _ any one character, ASCII letters fold case
RECURSIVE LikeMatch(_, _)
LikeMatch(p, s) ==
  IF p = <<>> THEN s = <<>>
  ELSE IF Head(p) = "%"
       THEN LikeMatch(Tail(p), s) \/ (s # <<>> /\ LikeMatch(p, Tail(s)))
       ELSE /\ s # <<>>
            /\ (Head(p) = "_" \/ ToLowerChar(Head(p)) = ToLowerChar(Head(s)))
            /\ LikeMatch(Tail(p), Tail(s))

\* String.prototype.trim
RECURSIVE TrimStart(_)
TrimStart(s) == IF s # <<>> /\ Head(s) = " " THEN TrimStart(Tail(s)) ELSE s
RECURSIVE TrimEnd(_)
TrimEnd(s) == IF s # <<>> /\ Last(s) = " " THEN TrimEnd(Front(s)) ELSE s
Trim(s) == TrimEnd(TrimStart(s))

\* Array.prototype.slice
NormIdx(i, len) == IF i < 0 THEN Max(len + i, 0) ELSE Min(i, len)
Slice(s, start, end) ==
  LET a == NormIdx(start, Len(s))
      b == NormIdx(end, Len(s))
  IN  IF a >= b THEN <<>> ELSE SubSeq(s, a + 1, b)

RECURSIVE Concat(_)
Concat(ss) == IF ss = <<>> THEN <<>> ELSE Head(ss) \o Concat(Tail(ss))

\* JSON.stringify / JSON.parse of a value: the text is kept as a tagged value
Stringify(v) == [json |-> v]
Parse(l) == l.json

----------------------------------------------------------------------------
(* MemoryStore *)
TsLeq(a, b) == a.day < b.day \/ (a.day = b.day /\ a.ms <= b.ms)

NewItem(key, value) ==
  [id |-> nextId, key |-> key, value |-> value, created_at |-> now]

\* ORDER BY created_at DESC (rows of equal created_at stay in rowid order)
RECURSIVE InsertDesc(_, _)
InsertDesc(x, sorted) ==
  IF sorted = <<>> THEN <<x>>
  ELSE IF TsLeq(x.created_at, Head(sorted).created_at)
       THEN <<Head(sorted)>> \o InsertDesc(x, Tail(sorted))
       ELSE <<x>> \o sorted
RECURSIVE OrderByCreatedAtDesc(_)
OrderByCreatedAtDesc(rows) ==
  IF rows = <<>> THEN <<>>
  ELSE InsertDesc(Last(rows), OrderByCreatedAtDesc(Front(rows)))

\* LIMIT ?: a negative limit means no limit
SqlLimit(rows, limit) ==
  IF limit < 0 THEN rows ELSE SubSeq(rows, 1, Min(limit, Len(rows)))

ReadLines == [i \in 1..Len(file) |-> Parse(file[i])]

ListAllJsonl(limit) == Slice(ReadLines, 0 - limit, Len(file))
ListAllSql(limit)   == SqlLimit(OrderByCreatedAtDesc(db), limit)
listAll(limit) == IF useJsonl THEN ListAllJsonl(limit) ELSE ListAllSql(limit)

MatchJsonl(r, query) ==
  Includes(r.key, query) \/ Includes(ToLower(r.value), ToLower(query))
MatchSql(r, query) ==
  \/ LikeMatch(<<"%">> \o query \o <<"%">>, r.key)
  \/ LikeMatch(<<"%">> \o query \o <<"%">>, r.value)

SearchJsonl(query, limit) ==
  Slice(SelectSeq(ReadLines, LAMBDA r : MatchJsonl(r, query)), 0, limit)
SearchSql(query, limit) ==
  SqlLimit(OrderByCreatedAtDesc(SelectSeq(db, LAMBDA r : MatchSql(r, query))), limit)
search(query, limit) ==
  IF useJsonl THEN SearchJsonl(query, limit) ELSE SearchSql(query, limit)

Today == now.day
\* (variant: everything up to and including today counts as today)
CreatedTodayOrEarlier(r) == r.created_at.day <= Today

CreatedToday(r) == r.created_at.day = Today
\* (variant: the rewritten log lacks its last line)
KeptLinesTruncated ==
  Front(SelectSeq(file, LAMBDA l : ~CreatedToday(Parse(l))))
KeptLines == SelectSeq(file, LAMBDA l : ~CreatedToday(Parse(l)))

\* (variant: the rows of today are the ones kept)
KeptRowsInverted == SelectSeq(db, LAMBDA r : CreatedToday(r))
KeptRows  == SelectSeq(db, LAMBDA r : ~CreatedToday(r))

\* An array result, as a record so that every result is a record
JsArray(rows) == [rows |-> rows]

\* (variant: a save replaces the stored items of the same key)
UpsertRows(rows, item) ==
  IF \E i \in 1..Len(rows) : rows[i].key = item.key
  THEN [i \in 1..Len(rows) |-> IF rows[i].key = item.key THEN item ELSE rows[i]]
  ELSE Append(rows, item)
saveKVUpsert(key, value) ==
  /\ IF useJsonl
     THEN /\ file' = [i \in 1..Len(UpsertRows(ReadLines, NewItem(key, value))) |->
                       Stringify(UpsertRows(ReadLines, NewItem(key, value))[i])]
          /\ db' = db
     ELSE /\ db' = UpsertRows(db, NewItem(key, value))
          /\ file' = file
  /\ nextId' = nextId + 1
  /\ ret' = NewItem(key, value)
  /\ lastOp' = [op |-> "saveKV", key |-> key, value |-> value]

\* (variant: the backend test is inverted)
saveKVInverted(key, value) ==
  /\ IF useJsonl
     THEN db' = Append(db, NewItem(key, value)) /\ file' = file
     ELSE file' = Append(file, Stringify(NewItem(key, value))) /\ db' = db
  /\ nextId' = nextId + 1
  /\ ret' = NewItem(key, value)
  /\ lastOp' = [op |-> "saveKV", key |-> key, value |-> value]

\* The effect of one store operation on the store variables.
saveKV(key, value) ==
  /\ IF useJsonl
     THEN file' = Append(file, Stringify(NewItem(key, value))) /\ db' = db
     ELSE db' = Append(db, NewItem(key, value)) /\ file' = file
  /\ nextId' = nextId + 1
  /\ ret' = NewItem(key, value)
  /\ lastOp' = [op |-> "saveKV", key |-> key, value |-> value]

\* saveName(name)
saveName(name) == saveKV(<<"n", "a", "m", "e">>, name)

forgetToday ==
  /\ IF useJsonl
     THEN /\ file' = KeptLines
          /\ db' = db
          /\ ret' = [removed |-> Len(file) - Len(KeptLines)]
     ELSE /\ db' = KeptRows
          /\ file' = file
          /\ ret' = [removed |-> Len(db) - Len(KeptRows)]
  /\ nextId' = nextId
  /\ lastOp' = [op |-> "forgetToday"]

readSearch(query, limit) ==
  /\ ret' = JsArray(search(query, limit))
  /\ lastOp' = [op |-> "search", query |-> query, limit |-> limit]
  /\ UNCHANGED <<db, file, nextId>>

\* (variant: the listing rewrites the log to the lines it returns)
readListAllTrimming(limit) ==
  /\ ret' = JsArray(listAll(limit))
  /\ lastOp' = [op |-> "listAll", limit |-> limit]
  /\ file' = IF useJsonl
             THEN [i \in 1..Len(ListAllJsonl(limit)) |->
                     Stringify(ListAllJsonl(limit)[i])]
             ELSE file
  /\ UNCHANGED <<db, nextId>>

readListAll(limit) ==
  /\ ret' = JsArray(listAll(limit))
  /\ lastOp' = [op |-> "listAll", limit |-> limit]
  /\ UNCHANGED <<db, file, nextId>>

Stored == IF useJsonl THEN ReadLines ELSE db

----------------------------------------------------------------------------
(* Inputs *)
Keys    == {<<>>, <<"k">>, <<"K">>}
Values  == {<<"v">>, <<"k">>}
Queries == {<<>>, <<"k">>, <<"K">>, <<"_">>}
SearchLimits == {DefaultSearchLimit, 1}
ListLimits   == {DefaultListLimit, 1, 0}

\* A store left behind by n earlier saves of the same key on day 0
OldItem(i) == [id |-> i, key |-> <<"k">>, value |-> <<"v">>,
               created_at |-> [day |-> 0, ms |-> i]]
OldItems(n) == [i \in 1..n |-> OldItem(i)]

\* The response object of the handler: what the caller has been sent
NewResponse ==
  [headersSent |-> FALSE, status |-> 200, written |-> <<>>,
   errorBody |-> FALSE, state |-> "open"]

IdleChat ==
  /\ pc = "idle"
  /\ messages = <<>>
  /\ firstReq = None
  /\ toolCalls = None
  /\ content = None
  /\ idx = 0
  /\ toolResults = <<>>
  /\ followupReq = None
  /\ chunks = <<>>
  /\ finalText = <<>>
  /\ emitted = <<>>
  /\ returned = None
  /\ thrown = "none"
  /\ res = NewResponse
  /\ modelCalls = 0
  /\ storeOps = 0
  /\ events = <<>>

\* new MemoryStore(): the backend is chosen; the data directory may hold
\* items of an earlier run
InitStoreWith(sizes) ==
  /\ useJsonl \in BOOLEAN
  /\ \E n \in sizes :
        /\ db = IF useJsonl THEN <<>> ELSE OldItems(n)
        /\ file = IF useJsonl THEN [i \in 1..n |-> Stringify(OldItem(i))] ELSE <<>>
        /\ now = [day |-> IF n = 0 THEN 0 ELSE 1, ms |-> 0]
  /\ nextId = DefaultSearchLimit + 1
  /\ lastOp = [op |-> "none"]
  /\ ret = [none |-> TRUE]

Tick ==
  /\ \/ now.ms < MaxMs /\ now' = [now EXCEPT !.ms = @ + 1]
     \/ now.day < MaxDay /\ now' = [day |-> now.day + 1, ms |-> 0]
  /\ UNCHANGED <<useJsonl, db, file, nextId, lastOp, ret>>

\* new Date() reads the wall clock, which may have been set back
ClockStepsBack ==
  /\ \E d \in 0..now.day, m \in 0..MaxMs :
        /\ d < now.day \/ m < now.ms
        /\ now' = [day |-> d, ms |-> m]
  /\ UNCHANGED <<useJsonl, db, file, nextId, lastOp, ret>>

CanSave == nextId <= DefaultSearchLimit + MaxSaves

----------------------------------------------------------------------------
(* Tool registry and argument payloads *)
ToolNames == {"memory_save", "memory_search", "memory_forget", "memory_list"}

\* call.function.arguments: "" , text that is no JSON, the text null, or the
\* text of an object with the given fields
EmptyArgs   == [text |-> "empty", fields |-> <<>>]
BadArgs     == [text |-> "bad", fields |-> <<>>]
NullArgs    == [text |-> "null", fields |-> <<>>]
ObjArgs(f)  == [text |-> "object", fields |-> f]

\* JSON.parse(call.function.arguments || "{}")
ParseArgs(a) ==
  CASE a.text = "bad"   -> [ok |-> FALSE, isNull |-> FALSE, fields |-> <<>>]
    [] a.text = "null"  -> [ok |-> TRUE, isNull |-> TRUE, fields |-> <<>>]
    [] a.text = "empty" -> [ok |-> TRUE, isNull |-> FALSE, fields |-> <<>>]
    [] OTHER            -> [ok |-> TRUE, isNull |-> FALSE, fields |-> a.fields]

\* args.f
Get(args, f) == IF f \in DOMAIN args.fields THEN Some(args.fields[f]) ELSE None

\* The branch of the try block taken for a call: the store operation it
\* calls with its arguments, or the error it yields without calling one
ToolPlan(name, args) ==
  CASE name = "memory_save" ->
         IF args.isNull THEN [op |-> "throw", error |-> <<"TypeError">>]
         ELSE [op |-> "saveKV",
               key |-> Trim(OrElse(Get(args, "key"), <<>>)),
               value |-> Trim(OrElse(Get(args, "value"), <<>>))]
    [] name = "memory_search" ->
         IF args.isNull THEN [op |-> "throw", error |-> <<"TypeError">>]
         ELSE [op |-> "search", query |-> OrElse(Get(args, "query"), <<>>)]
    [] name = "memory_forget" -> [op |-> "forgetToday"]
    [] name = "memory_list" ->
         IF args.isNull THEN [op |-> "throw", error |-> <<"TypeError">>]
         ELSE [op |-> "listAll", limit |-> OrElse(Get(args, "limit"), ToolListLimit)]
    [] OTHER -> [op |-> "none", error |-> <<"Unknown tool", name>>]

IsStoreOp(plan) == plan.op \in {"saveKV", "search", "forgetToday", "listAll"}

\* result after the try/catch; fails: the store operation throws
ToolResultOf(plan, fails) ==
  CASE plan.op \in {"throw", "none"} -> [error |-> plan.error]
    [] fails -> [error |-> <<"store failure">>]
    [] plan.op = "saveKV" -> NewItem(plan.key, plan.value)
    [] plan.op = "search" -> JsArray(search(plan.query, DefaultSearchLimit))
    [] plan.op = "listAll" -> JsArray(listAll(plan.limit))
    [] plan.op = "forgetToday" ->
         [removed |-> Len(Stored) - Len(IF useJsonl THEN KeptLines ELSE KeptRows)]

\* the store operation of the plan acting on the store
RunPlan(plan, fails) ==
  IF ~IsStoreOp(plan) THEN UNCHANGED <<db, file, nextId, lastOp, ret>>
  ELSE IF fails
  THEN /\ ret' = [error |-> <<"store failure">>]
       /\ lastOp' = [op |-> "threw", of |-> plan.op]
       /\ UNCHANGED <<db, file, nextId>>
  ELSE CASE plan.op = "saveKV" -> saveKV(plan.key, plan.value)
         [] plan.op = "search" -> readSearch(plan.query, DefaultSearchLimit)
         [] plan.op = "listAll" -> readListAll(plan.limit)
         [] plan.op = "forgetToday" -> forgetToday

\* (variant: every result is filed under the id of the first call)
ToolMessageFirstId(call, result) ==
  [role |-> "tool", tool_call_id |-> 1, name |-> call.name,
   content |-> Stringify(result)]

\* toolResults.push({...})
ToolMessage(call, result) ==
  [role |-> "tool", tool_call_id |-> call.id, name |-> call.name,
   content |-> Stringify(result)]

\* (variant: an empty tool_calls array counts as tool calls)
HasToolCallsTruthy(tc) == tc # None

\* toolCalls && toolCalls.length > 0
HasToolCalls(tc) == tc # None /\ Len(tc[1]) > 0

Calls == toolCalls[1]

\* (variant: the loop stops after its first iteration)
LoopDoneAfterFirst == idx > 1

\* the for-loop over toolCalls has run to its end
LoopDone == idx > Len(Calls)

\* (variant: the assistant's tool-call announcement is left out)
FollowupMessagesNoAnnouncement(msgs, tc, results) == msgs \o results

\* messages of the follow-up request
FollowupMessages(msgs, tc, results) ==
  msgs \o <<[role |-> "assistant", tool_calls |-> tc]>> \o results

\* chunk.choices[0]?.delta?.content ?? ""
DeltaOf(chunk) == OrElse(chunk, <<>>)

\* (variant: the text accumulated so far is forwarded with each delta)
OnDeltaArgAccumulated(acc, delta) == acc \o delta

\* the argument of onDelta?.(delta) while streaming
OnDeltaArg(acc, delta) == delta

\* onDelta(delta) as passed by the handler: res.write(delta)
Write(r, delta) ==
  [r EXCEPT !.headersSent = TRUE, !.written = Append(@, delta)]

\* res.end()
End(r) == [r EXCEPT !.headersSent = TRUE, !.state = "ended"]

\* catch (e) { res.status(500).json(...) }: once a fragment has been written
\* the headers are out and json() throws; the response is then left open, or
\* the connection is torn down by whatever handles the rejection
CatchOutcomes(r) ==
  IF r.headersSent
  THEN {[r EXCEPT !.state = "open"], [r EXCEPT !.state = "aborted"]}
  ELSE {[r EXCEPT !.headersSent = TRUE, !.status = 500, !.errorBody = TRUE,
                  !.state = "ended"]}

----------------------------------------------------------------------------
(* Inputs of an exchange *)
UserMsg(c) == [role |-> "user", content |-> c]
Bodies == {None, Some(<<UserMsg(<<"h">>), UserMsg(<<"i">>)>>)}

CallKinds ==
  { [name |-> "memory_save",
     arguments |-> ObjArgs([key |-> <<" ", "k">>, value |-> <<"v">>])],
    [name |-> "memory_save", arguments |-> EmptyArgs],
    [name |-> "memory_save", arguments |-> BadArgs],
    [name |-> "memory_search", arguments |-> ObjArgs([query |-> <<"k">>])],
    [name |-> "memory_search", arguments |-> EmptyArgs],
    [name |-> "memory_search", arguments |-> NullArgs],
    [name |-> "memory_forget", arguments |-> EmptyArgs],
    [name |-> "memory_list", arguments |-> EmptyArgs],
    [name |-> "unknown_tool", arguments |-> EmptyArgs],
    [name |-> "unknown_tool", arguments |-> BadArgs] }

\* the tool_calls of a response: call i has id i
CallLists ==
  UNION { { [i \in 1..n |-> [id |-> i, name |-> ks[i].name,
                             arguments |-> ks[i].arguments]] :
            ks \in [1..n -> CallKinds] } : n \in 0..MaxCalls }

Contents == {None, Some(<<"h", "i">>)}
\* a response that carries tool calls has no text (content is not read then)
ContentsWith(tc) == IF tc # None /\ Len(tc[1]) > 0 THEN {None} ELSE Contents
ChunkContents == {None, Some(<<"a">>), Some(<<"b">>)}

----------------------------------------------------------------------------
(* One exchange: POST /api/chat and runChatWithTools *)
Log(e) == events' = Append(events, e)

\* an exception leaves runChatWithTools and reaches the handler's catch
Throw(e) ==
  /\ pc' = "failed"
  /\ thrown' = e
  /\ res' \in CatchOutcomes(res)
  /\ Log("throw")
  /\ UNCHANGED returned

\* the handler reads the body and the first model call is issued
PostChat ==
  /\ pc = "idle"
  /\ \E body \in Bodies : messages' = OrElse(body, <<>>)
  /\ firstReq' = Some([messages |-> messages', tools |-> ToolNames,
                       tool_choice |-> "auto", stream |-> FALSE])
  /\ modelCalls' = modelCalls + 1
  /\ pc' = "first"
  /\ Log("model1")
  /\ UNCHANGED <<toolCalls, content, idx, toolResults, followupReq, chunks,
                 finalText, emitted, returned, thrown, res, storeOps>>
  /\ UNCHANGED storeVars

\* the first response arrives
FirstResponse ==
  /\ pc = "first"
  /\ \E tc \in {None} \cup {Some(l) : l \in CallLists} :
     \E c \in ContentsWith(tc) :
       /\ toolCalls' = tc
       /\ content' = c
       /\ IF HasToolCalls(tc)
          THEN /\ pc' = "dispatching"
               /\ idx' = 1
               /\ toolResults' = <<>>
               /\ events' = Append(events, "resp1")
               /\ UNCHANGED <<finalText, emitted, returned, res>>
          ELSE /\ finalText' = OrElse(c, <<>>)
               /\ emitted' = Append(emitted, finalText')
               /\ res' = End(Write(res, finalText'))
               /\ returned' = Some(finalText')
               /\ pc' = "done"
               /\ events' = events \o <<"resp1", "emit", "return">>
               /\ UNCHANGED <<idx, toolResults>>
  /\ UNCHANGED <<messages, firstReq, followupReq, chunks, thrown, modelCalls,
                 storeOps>>
  /\ UNCHANGED storeVars

\* the first model call fails
FirstFails ==
  /\ pc = "first"
  /\ Throw("UpstreamModelError")
  /\ UNCHANGED <<messages, firstReq, toolCalls, content, idx, toolResults, followupReq,
                 chunks, finalText, emitted, modelCalls, storeOps>>
  /\ UNCHANGED storeVars

\* one iteration of the for-loop over toolCalls
DispatchCall ==
  /\ pc = "dispatching"
  /\ ~LoopDone
  /\ LET call == Calls[idx]
         parsed == ParseArgs(call.arguments)
         plan == ToolPlan(call.name, parsed)
     IN  IF ~parsed.ok
         THEN /\ Throw("SyntaxError")
              /\ UNCHANGED <<idx, toolResults, storeOps>>
              /\ UNCHANGED storeVars
         ELSE \E fails \in BOOLEAN :
                /\ IsStoreOp(plan) \/ ~fails
                /\ RunPlan(plan, fails)
                /\ toolResults' =
                     Append(toolResults, ToolMessage(call, ToolResultOf(plan, fails)))
                /\ storeOps' = storeOps + (IF IsStoreOp(plan) THEN 1 ELSE 0)
                /\ idx' = idx + 1
                /\ Log("tool")
                /\ UNCHANGED <<pc, thrown, res, returned, useJsonl, now>>
  /\ UNCHANGED <<messages, firstReq, toolCalls, content, followupReq, chunks,
                 finalText, emitted, modelCalls>>

\* the follow-up model call is issued
FollowupCall ==
  /\ pc = "dispatching"
  /\ LoopDone
  /\ followupReq' = Some([messages |-> FollowupMessages(messages, Calls, toolResults),
                          tools |-> {}, stream |-> TRUE])
  /\ modelCalls' = modelCalls + 1
  /\ pc' = "followup"
  /\ Log("model2")
  /\ UNCHANGED <<messages, firstReq, toolCalls, content, idx, toolResults, chunks,
                 finalText, emitted, returned, thrown, res, storeOps>>
  /\ UNCHANGED storeVars

\* the follow-up call returns its stream
FollowupResponse ==
  /\ pc = "followup"
  /\ pc' = "streaming"
  /\ finalText' = <<>>
  /\ UNCHANGED <<messages, firstReq, toolCalls, content, idx, toolResults, followupReq,
                 chunks, emitted, returned, thrown, res, modelCalls, storeOps,
                 events>>
  /\ UNCHANGED storeVars

\* the follow-up model call fails
FollowupFails ==
  /\ pc = "followup"
  /\ Throw("UpstreamModelError")
  /\ UNCHANGED <<messages, firstReq, toolCalls, content, idx, toolResults, followupReq,
                 chunks, finalText, emitted, modelCalls, storeOps>>
  /\ UNCHANGED storeVars

\* one chunk of the stream is consumed
StreamChunk ==
  /\ pc = "streaming"
  /\ Len(chunks) < MaxChunks
  /\ \E chunk \in ChunkContents :
       /\ chunks' = Append(chunks, DeltaOf(chunk))
       /\ IF DeltaOf(chunk) # <<>>
          THEN /\ finalText' = finalText \o DeltaOf(chunk)
               /\ emitted' = Append(emitted, OnDeltaArg(finalText, DeltaOf(chunk)))
               /\ res' = Write(res, OnDeltaArg(finalText, DeltaOf(chunk)))
               /\ Log("emit")
          ELSE UNCHANGED <<finalText, emitted, res, events>>
  /\ UNCHANGED <<pc, messages, firstReq, toolCalls, content, idx, toolResults,
                 followupReq, returned, thrown, modelCalls, storeOps>>
  /\ UNCHANGED storeVars

\* the stream completes: return finalText, then res.end()
StreamEnd ==
  /\ pc = "streaming"
  /\ returned' = Some(finalText)
  /\ res' = End(res)
  /\ pc' = "done"
  /\ Log("return")
  /\ UNCHANGED <<messages, firstReq, toolCalls, content, idx, toolResults, followupReq,
                 chunks, finalText, emitted, thrown, modelCalls, storeOps>>
  /\ UNCHANGED storeVars

\* the stream fails
StreamFails ==
  /\ pc = "streaming"
  /\ Throw("UpstreamModelError")
  /\ UNCHANGED <<messages, firstReq, toolCalls, content, idx, toolResults, followupReq,
                 chunks, finalText, emitted, modelCalls, storeOps>>
  /\ UNCHANGED storeVars

Init == InitStoreWith({1}) /\ IdleChat

Next ==
  \/ PostChat
  \/ FirstResponse
  \/ FirstFails
  \/ DispatchCall
  \/ FollowupCall
  \/ FollowupResponse
  \/ FollowupFails
  \/ StreamChunk
  \/ StreamEnd
  \/ StreamFails

Spec == Init /\ [][Next]_vars

\* an exchange on a log that holds as many old items as a search returns
InitBatch == InitStoreWith({DefaultSearchLimit}) /\ useJsonl /\ IdleChat

SpecBatch == InitBatch /\ [][Next]_vars

----------------------------------------------------------------------------
(* The store driven directly *)
InitStore == InitStoreWith({0, 1, DefaultSearchLimit}) /\ IdleChat

DoSaveKV ==
  /\ CanSave
  /\ \E key \in Keys, value \in Values : saveKV(key, value)
  /\ UNCHANGED <<useJsonl, now>>

DoSearch ==
  /\ \E query \in Queries, limit \in SearchLimits : readSearch(query, limit)
  /\ UNCHANGED <<useJsonl, now>>

DoListAll ==
  /\ \E limit \in ListLimits : readListAll(limit)
  /\ UNCHANGED <<useJsonl, now>>

DoForgetToday ==
  /\ forgetToday
  /\ UNCHANGED <<useJsonl, now>>

NextStore ==
  \/ DoSaveKV /\ UNCHANGED chatVars
  \/ DoSearch /\ UNCHANGED chatVars
  \/ DoListAll /\ UNCHANGED chatVars
  \/ DoForgetToday /\ UNCHANGED chatVars
  \/ Tick /\ UNCHANGED chatVars

SpecStore == InitStore /\ [][NextStore]_vars

\* the same operations on a store that starts empty or with one old item
InitStoreOps == InitStoreWith({0, 1}) /\ IdleChat

SpecStoreOps == InitStoreOps /\ [][NextStore]_vars

\* the store with names as the only saves
DoSaveName ==
  /\ CanSave
  /\ \E name \in Values : saveName(name)
  /\ UNCHANGED <<useJsonl, now>>

NextNames ==
  \/ DoSaveName /\ UNCHANGED chatVars
  \/ DoSearch /\ UNCHANGED chatVars
  \/ DoListAll /\ UNCHANGED chatVars
  \/ DoForgetToday /\ UNCHANGED chatVars
  \/ Tick /\ UNCHANGED chatVars

SpecNames == InitStoreOps /\ [][NextNames]_vars

\* the store under a wall clock that moves either way
NextClock ==
  \/ DoSaveName /\ UNCHANGED chatVars
  \/ DoListAll /\ UNCHANGED chatVars
  \/ Tick /\ UNCHANGED chatVars
  \/ ClockStepsBack /\ UNCHANGED chatVars

SpecClock == InitStoreOps /\ [][NextClock]_vars

----------------------------------------------------------------------------
(* Two store instances side by side, one on the table and one on the log,
   given the same calls at the same clock readings; ret holds what each
   returned *)
InitBoth ==
  /\ useJsonl = FALSE
  /\ db = <<>>
  /\ file = <<>>
  /\ now = [day |-> 0, ms |-> 0]
  /\ nextId = DefaultSearchLimit + 1
  /\ lastOp = [op |-> "none"]
  /\ ret = [none |-> TRUE]
  /\ IdleChat

BothSaveKV ==
  /\ CanSave
  /\ \E key \in Keys, value \in Values :
       /\ db' = Append(db, NewItem(key, value))
       /\ file' = Append(file, Stringify(NewItem(key, value)))
       /\ ret' = [sql |-> NewItem(key, value), jsonl |-> NewItem(key, value)]
       /\ lastOp' = [op |-> "saveKV", key |-> key, value |-> value]
  /\ nextId' = nextId + 1
  /\ UNCHANGED <<useJsonl, now>>

BothSearch ==
  /\ \E query \in Queries, limit \in SearchLimits :
       /\ ret' = [sql |-> JsArray(SearchSql(query, limit)),
                  jsonl |-> JsArray(SearchJsonl(query, limit))]
       /\ lastOp' = [op |-> "search", query |-> query, limit |-> limit]
  /\ UNCHANGED <<useJsonl, db, file, nextId, now>>

BothListAll ==
  /\ \E limit \in ListLimits :
       /\ ret' = [sql |-> JsArray(ListAllSql(limit)),
                  jsonl |-> JsArray(ListAllJsonl(limit))]
       /\ lastOp' = [op |-> "listAll", limit |-> limit]
  /\ UNCHANGED <<useJsonl, db, file, nextId, now>>

BothForgetToday ==
  /\ db' = KeptRows
  /\ file' = KeptLines
  /\ ret' = [sql |-> [removed |-> Len(db) - Len(KeptRows)],
             jsonl |-> [removed |-> Len(file) - Len(KeptLines)]]
  /\ lastOp' = [op |-> "forgetToday"]
  /\ UNCHANGED <<useJsonl, nextId, now>>

NextBoth ==
  \/ BothSaveKV /\ UNCHANGED chatVars
  \/ BothSearch /\ UNCHANGED chatVars
  \/ BothListAll /\ UNCHANGED chatVars
  \/ BothForgetToday /\ UNCHANGED chatVars
  \/ Tick /\ UNCHANGED chatVars

SpecBoth == InitBoth /\ [][NextBoth]_vars

----------------------------------------------------------------------------
(* Properties *)
Range(f) == {f[i] : i \in DOMAIN f}
Count(f, e) == Cardinality({i \in DOMAIN f : f[i] = e})
IsError(result) == "error" \in DOMAIN result
NonEmpty(ss) == SelectSeq(ss, LAMBDA d : d # <<>>)

\* the first response has arrived and carries no tool call
NoToolCalls ==
  /\ "resp1" \in Range(events)
  /\ (toolCalls = None \/ Len(toolCalls[1]) = 0)

\* the first response has arrived and carries at least one tool call
SomeToolCalls == toolCalls # None /\ Len(toolCalls[1]) > 0

\* the loop of runChatWithTools is about to handle call idx
AtCall == pc = "dispatching" /\ idx <= Len(toolCalls[1])

\* C1: a step that handles one tool call of the batch never ends the
\* exchange: whatever goes wrong in it (unknown name, store exception,
\* unparsable arguments) becomes the content of that call's ToolResult, and
\* the loop goes on to the next call or to the follow-up call.
C1_FailureBecomesResult ==
  [][AtCall =>
       /\ pc' = "dispatching"
       /\ idx' = idx + 1
       /\ Len(toolResults') = idx
       /\ toolResults'[idx].tool_call_id = toolCalls[1][idx].id]_vars

\* C2: handling a tool call whose name is not advertised appends a
\* ToolResult with an error payload, invokes no store operation, leaves the
\* store unchanged and does not end the exchange.
C2_UnknownToolIsData ==
  [][(AtCall /\ toolCalls[1][idx].name \notin ToolNames) =>
       /\ pc' = "dispatching"
       /\ Len(toolResults') = idx
       /\ IsError(Parse(toolResults'[idx].content))
       /\ storeOps' = storeOps
       /\ UNCHANGED <<db, file, nextId>>]_vars

\* C3: when the exchange has finished, the caller holds either the complete
\* reply followed by end-of-response, or an explicit error message on a
\* closed response.
C3_CompleteOrError ==
  /\ pc = "done" =>
       /\ res.state = "ended"
       /\ ~res.errorBody
       /\ Concat(res.written) = returned[1]
  /\ pc = "failed" =>
       /\ res.state = "ended"
       /\ res.errorBody

\* C4: while dispatching there is one ToolResult per call handled so far, and
\* once the follow-up call is issued there is exactly one per call of the
\* first response; entry i carries the id and the name of call i, and its
\* content is what call i produced (an unknown name yields the error naming
\* it, a save yields an item with the trimmed key of that call).
C4_OneResultPerCall ==
  /\ pc = "dispatching" => Len(toolResults) = idx - 1
  /\ followupReq # None => Len(toolResults) = Len(toolCalls[1])
  /\ \A i \in 1..Len(toolResults) :
       LET call == toolCalls[1][i]
           result == Parse(toolResults[i].content)
       IN  /\ toolResults[i].tool_call_id = call.id
           /\ toolResults[i].name = call.name
           /\ call.name \notin ToolNames =>
                IsError(result) /\ result.error = <<"Unknown tool", call.name>>
           /\ (call.name = "memory_save" /\ ~IsError(result)) =>
                result.key = IF call.arguments.text = "object"
                             THEN Trim(call.arguments.fields.key) ELSE <<>>

C4_Witness ==
  /\ pc = "done"
  /\ Len(toolResults) = 2
  /\ toolResults[1].name = "unknown_tool"
  /\ toolResults[2].name = "memory_save"
  /\ ~IsError(Parse(toolResults[2].content))

\* C5: the follow-up request carries the original transcript unmodified and
\* in order, then one assistant message announcing the tool calls, then the
\* ToolResults in the order collected; it asks for a stream and advertises
\* no tools.
C5_FollowupRequest ==
  followupReq # None =>
    LET r == followupReq[1]
        n == Len(firstReq[1].messages)
    IN  /\ Len(r.messages) = n + 1 + Len(toolResults)
        /\ SubSeq(r.messages, 1, n) = firstReq[1].messages
        /\ firstReq[1].messages = messages
        /\ r.messages[n + 1] = [role |-> "assistant", tool_calls |-> toolCalls[1]]
        /\ \A i \in 1..Len(toolResults) : r.messages[n + 1 + i] = toolResults[i]
        /\ r.stream = TRUE
        /\ r.tools = {}

C5_Witness ==
  /\ followupReq # None
  /\ Len(messages) = 2
  /\ Len(toolResults) = 2
  /\ pc = "done"

\* C6: the events of an exchange are ordered: the first model call, its
\* response, then (only with tool calls) the tool executions, then the second
\* model call, issued when every call has been executed, then the emissions,
\* then the return. No tool runs after the second model call, no fragment is
\* emitted while tool calls remain, and a call list is dispatched once.
C6_StrictOrder ==
  /\ events # <<>> => events[1] = "model1"
  /\ Count(events, "model1") <= 1
  /\ Count(events, "model2") <= 1
  /\ \A i \in 1..Len(events) :
       /\ events[i] = "tool" =>
            /\ i > 2 /\ events[2] = "resp1"
            /\ SomeToolCalls
            /\ \A j \in 3..i : events[j] = "tool"
       /\ events[i] = "model2" =>
            /\ SomeToolCalls
            /\ i = Len(toolCalls[1]) + 3
            /\ \A j \in 3..(i - 1) : events[j] = "tool"
       /\ events[i] = "emit" =>
            /\ \A j \in i..Len(events) : events[j] \in {"emit", "return", "throw"}
            /\ SomeToolCalls => \E j \in 1..(i - 1) : events[j] = "model2"
            /\ toolCalls = None \/ Len(toolCalls[1]) = 0 => events[i - 1] = "resp1"
       /\ events[i] \in {"return", "throw"} => i = Len(events)
  /\ SomeToolCalls => Count(events, "tool") <= Len(toolCalls[1])
  /\ storeOps <= Count(events, "tool")

C6_Witness ==
  events = <<"model1", "resp1", "tool", "tool", "model2", "emit", "emit", "return">>

\* C7: when the exchange has finished the model has been called exactly once
\* if the first response had no tool call and exactly twice otherwise; after
\* a failed model call nothing more is called and the failure has left
\* runChatWithTools.
C7_ModelCallCount ==
  /\ modelCalls <= 2
  /\ pc \in {"done", "failed"} =>
       modelCalls = IF SomeToolCalls THEN 2 ELSE 1
  /\ thrown = "UpstreamModelError" =>
       pc = "failed" /\ returned = None /\ events[Len(events)] = "throw"

\* C8: the fragments passed to onDelta are, in order, exactly the non-empty
\* deltas consumed so far, each once; their concatenation is the accumulated
\* text and, when the exchange completes, the returned text.
C8_FragmentsConcat ==
  /\ pc \in {"streaming", "done"} => Concat(emitted) = finalText
  /\ pc = "done" => Concat(emitted) = returned[1]
  /\ (pc \in {"streaming", "done"} /\ SomeToolCalls) => emitted = NonEmpty(chunks)

C8_Witness ==
  /\ pc = "done"
  /\ chunks = << <<"a">>, <<"b">> >>
  /\ emitted = << <<"a">>, <<"b">> >>
  /\ returned = Some(<<"a", "b">>)

\* C9: when the first response carries no tool call (absent or empty list)
\* the exchange is done at once: no store operation was invoked and the store
\* is as it was, the model was called once and no follow-up request exists,
\* and the response's text (the empty text when absent) was emitted once and
\* returned.
C9_DirectPath ==
  NoToolCalls =>
    /\ pc = "done"
    /\ storeOps = 0
    /\ lastOp = [op |-> "none"]
    /\ nextId = DefaultSearchLimit + 1
    /\ Stored = OldItems(1)
    /\ modelCalls = 1
    /\ followupReq = None
    /\ returned = Some(OrElse(content, <<>>))
    /\ emitted = <<OrElse(content, <<>>)>>
    /\ res.written = emitted
    /\ res.state = "ended"

C9_Witness ==
  /\ NoToolCalls
  /\ toolCalls = Some(<<>>)
  /\ returned = Some(<<"h", "i">>)
  /\ Len(Stored) = 1

\* C10: right after saveKV(key, value) with non-empty key and value,
\* search(key) returns a sequence holding an item with that key and value.
C10_RoundTrip ==
  (lastOp.op = "saveKV" /\ lastOp.key # <<>> /\ lastOp.value # <<>>) =>
    \E i \in 1..Len(search(lastOp.key, DefaultSearchLimit)) :
      /\ search(lastOp.key, DefaultSearchLimit)[i].key = lastOp.key
      /\ search(lastOp.key, DefaultSearchLimit)[i].value = lastOp.value

----------------------------------------------------------------------------
(* Properties of the store *)
\* query is, ignoring letter case, a substring of the key or of the value
CIMatch(r, query) ==
  \/ Includes(ToLower(r.key), ToLower(query))
  \/ Includes(ToLower(r.value), ToLower(query))

\* position of a stored item in insertion order
PosOf(r) == CHOOSE p \in 1..Len(Stored) : Stored[p] = r

\* rows come most-recently-inserted first
RecentFirst(rows) ==
  \A i, j \in 1..Len(rows) : i < j => PosOf(rows[i]) > PosOf(rows[j])

\* C11: what search(query) returns are items that hold the query as a
\* case-insensitive substring of key or value, and, when the limit is not
\* reached, every stored item that does is returned.
C11_SearchMatches ==
  lastOp.op = "search" =>
    /\ \A i \in 1..Len(ret.rows) : CIMatch(ret.rows[i], lastOp.query)
    /\ Len(ret.rows) < lastOp.limit =>
         \A j \in 1..Len(Stored) :
           CIMatch(Stored[j], lastOp.query) => Stored[j] \in Range(ret.rows)

\* C12: search(query, limit) returns at most limit items and no returned
\* item stands before one that was saved after it.
C12_SearchRecentFirst ==
  lastOp.op = "search" =>
    /\ Len(ret.rows) <= lastOp.limit
    /\ RecentFirst(ret.rows)

\* C13: search with the empty query returns the empty sequence.
C13_EmptyQueryEmpty ==
  (lastOp.op = "search" /\ lastOp.query = <<>>) => ret.rows = <<>>

\* C14: listAll(limit) with limit >= 0 returns at most limit items, most
\* recent first: the first one is the item saved last that is still stored.
C14_ListRecentFirst ==
  (lastOp.op = "listAll" /\ lastOp.limit >= 0) =>
    /\ Len(ret.rows) <= lastOp.limit
    /\ ret.rows # <<>> => ret.rows[1] = Last(Stored)
    /\ RecentFirst(ret.rows)

\* a step that is one forgetToday call
ForgetStep == lastOp'.op = "forgetToday" /\ now' = now

\* C15: forgetToday removes exactly the items created on the current day and
\* keeps the others as they are, in place; removed is the number of items
\* removed; a forgetToday that follows a forgetToday with no other operation
\* in between returns removed: 0.
C15_ForgetTodayExact ==
  [][ForgetStep =>
       /\ Stored' = SelectSeq(Stored, LAMBDA r : r.created_at.day # now.day)
       /\ ret'.removed =
            Cardinality({i \in 1..Len(Stored) : Stored[i].created_at.day = now.day})
       /\ ret'.removed = Len(Stored) - Len(Stored')
       /\ lastOp.op = "forgetToday" => ret'.removed = 0]_vars

C15_Witness ==
  /\ lastOp.op = "forgetToday"
  /\ ret.removed = 1
  /\ Len(Stored) = 1
  /\ Stored[1].created_at.day < now.day

\* C16: the table backend and the log backend, started empty and given the
\* same calls with the same arguments at the same clock readings, return the
\* same result for every call.
C16_BackendsAgree ==
  lastOp.op # "none" => ret.sql = ret.jsonl

\* C17: the backend chosen by the constructor never changes; every step
\* leaves the other backend untouched, also the step of an operation that
\* throws, and a save adds its item to the chosen backend.
C17_BackendFixed ==
  [][/\ useJsonl' = useJsonl
     /\ useJsonl => db' = db
     /\ ~useJsonl => file' = file
     /\ nextId' # nextId =>
          IF useJsonl THEN Len(file') = Len(file) + 1
                      ELSE Len(db') = Len(db) + 1]_vars

C17_Witness ==
  /\ useJsonl
  /\ Len(toolResults) = 2
  /\ Parse(toolResults[1].content) = [error |-> <<"store failure">>]
  /\ toolResults[2].name = "memory_save"
  /\ ~IsError(Parse(toolResults[2].content))
  /\ Len(file) = 2
  /\ db = <<>>

\* a step that is one saveKV call
SaveStep == nextId' # nextId

\* C18: saveKV adds exactly one item, after the items already stored, with an
\* id that no stored item has, and leaves the stored items as they are, also
\* when one of them has the same key; a step of search, of listAll or of the
\* clock leaves the stored items as they are; ids stay unique.
C18_SaveAppends ==
  [][/\ SaveStep =>
          /\ Len(Stored') = Len(Stored) + 1
          /\ SubSeq(Stored', 1, Len(Stored)) = Stored
          /\ \A i \in 1..Len(Stored) : Stored[i].id # Stored'[Len(Stored')].id
          /\ Stored'[Len(Stored')].key = lastOp'.key
          /\ Stored'[Len(Stored')].value = lastOp'.value
     /\ (~SaveStep /\ ~ForgetStep) => Stored' = Stored
     /\ \A i, j \in 1..Len(Stored') : i # j => Stored'[i].id # Stored'[j].id]_vars

C18_Witness ==
  /\ lastOp.op = "saveKV"
  /\ Len(Stored) = 2
  /\ Stored[1].key = Stored[2].key
  /\ Stored[1].id # Stored[2].id
  /\ Stored[1] = OldItem(1)

\* a step that is one search or listAll call
ReadStep == lastOp'.op \in {"search", "listAll"} /\ lastOp' # lastOp

\* an item with its four fields, as a save wrote it
WholeItem(r) ==
  /\ DOMAIN r = {"id", "key", "value", "created_at"}
  /\ r.id < nextId

\* C19: the store operations of the exchanges interleave as whole steps
\* (each method body is synchronous). What a search or listAll returns are
\* whole items that are stored at the time of the read, every stored item is
\* whole, and a forgetToday takes the store from its complete contents before
\* the delete to its complete contents after it: nothing of another day is
\* missing and nothing partial is left.
C19_NoTornRead ==
  [][/\ ReadStep =>
          \A i \in 1..Len(ret'.rows) :
            /\ WholeItem(ret'.rows[i])
            /\ ret'.rows[i] \in Range(Stored)
            /\ useJsonl => Stringify(ret'.rows[i]) \in Range(file)
     /\ \A i \in 1..Len(Stored') : WholeItem(Stored'[i]) \/ Stored'[i].id = nextId
     /\ ForgetStep =>
          Range(Stored') = {r \in Range(Stored) : r.created_at.day # now.day}]_vars

C19_Witness ==
  /\ useJsonl
  /\ lastOp.op = "listAll"
  /\ ret.rows = <<OldItem(1)>>
  /\ nextId = DefaultSearchLimit + 2

\* C20: no write is lost. Every step keeps every stored item of a day before
\* today; the item of a saveKV is stored when the call returns, whatever ran
\* before it; a forgetToday drops nothing but today's items.
C20_NoLostWrite ==
  [][/\ \A i \in 1..Len(Stored) :
          Stored[i].created_at.day < now.day => Stored[i] \in Range(Stored')
     /\ SaveStep =>
          /\ ret' \in Range(Stored')
          /\ Range(Stored) \subseteq Range(Stored')
     /\ ForgetStep =>
          \A i \in 1..Len(Stored) :
            Stored[i].created_at.day # now.day => Stored[i] \in Range(Stored')]_vars

C20_Witness ==
  /\ ~useJsonl
  /\ lastOp.op = "forgetToday"
  /\ ret.removed = 1
  /\ Stored = <<OldItem(1)>>
  /\ nextId = DefaultSearchLimit + 2

----------------------------------------------------------------------------
(* Properties of the dispatch of tool calls *)
\* the Memory Store operation that belongs to a registered name
OpOfName(name) ==
  CASE name = "memory_save"   -> "saveKV"
    [] name = "memory_search" -> "search"
    [] name = "memory_forget" -> "forgetToday"
    [] name = "memory_list"   -> "listAll"

\* the operation the store ran last, also when it threw
LastStoreOp(l) == IF l.op = "threw" THEN l.of ELSE l.op

\* C21: the step that handles a tool call with a registered name invokes
\* exactly one Memory Store operation, the one that belongs to the name, and
\* changes nothing else of the store: a search or a list leaves the stored
\* items alone, the backend and the clock are untouched.
C21_OneStoreOpPerCall ==
  [][(AtCall /\ toolCalls[1][idx].name \in ToolNames) =>
        /\ storeOps' = storeOps + 1
        /\ LastStoreOp(lastOp') = OpOfName(toolCalls[1][idx].name)
        /\ OpOfName(toolCalls[1][idx].name) \in {"search", "listAll"} =>
             UNCHANGED <<db, file, nextId>>
        /\ UNCHANGED <<useJsonl, now>>]_vars

\* the payload of the call is JSON and lacks a field the tool requires
OmitsRequired(call) ==
  /\ call.arguments.text # "bad"
  /\ \/ call.name = "memory_save"
        /\ ~({"key", "value"} \subseteq DOMAIN call.arguments.fields)
     \/ call.name = "memory_search"
        /\ "query" \notin DOMAIN call.arguments.fields

\* the arguments the store operation was invoked with hold the empty string
\* for every field the payload lacks
EmptyForMissing(call, l) ==
  /\ (l.op = "saveKV" /\ "key" \notin DOMAIN call.arguments.fields) => l.key = <<>>
  /\ (l.op = "saveKV" /\ "value" \notin DOMAIN call.arguments.fields) => l.value = <<>>
  /\ l.op = "search" => l.query = <<>>

\* C22: the step that handles a registered call whose payload lacks a
\* required field does not reject it: the store operation of the name is
\* invoked with the empty string for the missing field, and what it returns
\* (or the message of what it throws) is the content of the call's
\* ToolResult; a memory_save without key stores an item with the empty key.
C22_MissingFieldIsEmpty ==
  [][(AtCall /\ OmitsRequired(toolCalls[1][idx])) =>
        /\ storeOps' = storeOps + 1
        /\ LastStoreOp(lastOp') = OpOfName(toolCalls[1][idx].name)
        /\ EmptyForMissing(toolCalls[1][idx], lastOp')
        /\ Len(toolResults') = Len(toolResults) + 1
        /\ Parse(toolResults'[Len(toolResults')].content) = ret'
        /\ lastOp'.op = "saveKV" =>
             /\ Len(Stored') = Len(Stored) + 1
             /\ Stored'[Len(Stored')] = ret'
             /\ "key" \notin DOMAIN toolCalls[1][idx].arguments.fields =>
                  ret'.key = <<>>]_vars

----------------------------------------------------------------------------
(* Further properties of the store *)
\* C23: a search or a listAll leaves the stored items as they are; a
\* listAll(n) that follows a listAll(n) returns the same rows in the same
\* order; and what listAll(n) would return is the same after every step
\* that is no saveKV and no forgetToday, whatever reads and clock ticks lie
\* between two calls.
C23_ReadsIdempotent ==
  [][/\ ReadStep => (db' = db /\ file' = file /\ nextId' = nextId)
     /\ (lastOp.op = "listAll" /\ lastOp'.op = "listAll"
         /\ lastOp'.limit = lastOp.limit) => ret' = ret
     /\ (~SaveStep /\ ~ForgetStep) =>
          \A n \in ListLimits : listAll(n)' = listAll(n)]_vars

C23_Witness ==
  /\ lastOp.op = "listAll"
  /\ lastOp.limit = 1
  /\ Len(Stored) = 2
  /\ Len(ret.rows) = 1
  /\ ret.rows[1].key = <<"n", "a", "m", "e">>
  /\ now.ms > 0

Reverse(rows) == [i \in 1..Len(rows) |-> rows[Len(rows) + 1 - i]]

\* C24: the stored items, in the order they were inserted, have
\* non-decreasing created_at, so that ordering them by created_at
\* descending gives them most recently inserted first.
C24_CreatedAtMonotone ==
  /\ \A i, j \in 1..Len(Stored) :
       i < j => TsLeq(Stored[i].created_at, Stored[j].created_at)
  /\ OrderByCreatedAtDesc(Stored) = Reverse(Stored)

----------------------------------------------------------------------------
(* Properties of a batch of tool calls *)
\* result j of the batch is the item a memory_save stored
SavedBy(j) ==
  /\ toolResults[j].name = "memory_save"
  /\ ~IsError(Parse(toolResults[j].content))

\* result i of the batch is what a search for a given, non-empty query that
\* item x matches returned, or what a listing of at least one item returned
ReadFor(i, x) ==
  /\ ~IsError(Parse(toolResults[i].content))
  /\ \/ /\ toolResults[i].name = "memory_search"
        /\ "query" \in DOMAIN toolCalls[1][i].arguments.fields
        /\ toolCalls[1][i].arguments.fields.query # <<>>
        /\ CIMatch(x, toolCalls[1][i].arguments.fields.query)
     \/ /\ toolResults[i].name = "memory_list"
        /\ "limit" \in DOMAIN toolCalls[1][i].arguments.fields =>
             toolCalls[1][i].arguments.fields.limit >= 1

\* C25: the calls of a batch are handled one at a time in the order of the
\* list: while the loop runs, the results collected so far are those of
\* calls 1 .. idx - 1 in that order, and the store has run no more
\* operations than that. A memory_search (for a query the item matches) or a
\* memory_list that comes right after a memory_save of the same batch
\* returns the item that save stored.
C25_BatchInOrder ==
  /\ SomeToolCalls =>
       /\ Len(toolResults) <= Len(toolCalls[1])
       /\ storeOps <= Len(toolResults)
       /\ pc = "dispatching" => idx = Len(toolResults) + 1
       /\ \A i \in 1..Len(toolResults) :
            /\ toolResults[i].tool_call_id = toolCalls[1][i].id
            /\ toolResults[i].name = toolCalls[1][i].name
  /\ \A i \in 2..Len(toolResults) :
       (SavedBy(i - 1) /\ ReadFor(i, Parse(toolResults[i - 1].content))) =>
          Parse(toolResults[i - 1].content)
             \in Range(Parse(toolResults[i].content).rows)

====
